---- MODULE Spec2Model ----
(***************************************************************************)
(* Model of the source-code compaction engine and of the conversation      *)
(* store                                                                   *)
(*   backend/utils/code_compressor.py      (class CodeCompressor)          *)
(*   backend/utils/identifier_shortener.py (class IdentifierShortener)     *)
(*   backend/infrastructure/repository/file_conversation_repository.py     *)
(*   backend/application/service/conversation_service.py                   *)
(*                                                                         *)
(* A text is a sequence of one-character strings.  The specifications of   *)
(* the module:                                                             *)
(*   Spec        one CodeCompressor instance: compress_code phase by       *)
(*               phase, then the report or decompress_code                 *)
(*   SpecReuse   compress_code called again and again on one instance      *)
(*   SpecShared  two callers of compress_code on one shared instance       *)
(*   SpecGen     the short identifier generator, called again and again    *)
(*   SpecRename  one IdentifierShortener visiting Name nodes               *)
(*   SpecRepo    calls on one FileConversationRepository, one at a time    *)
(*   SpecWriters two threads calling add_message on one repository         *)
(***************************************************************************)
EXTENDS Integers, Sequences, FiniteSets, TLC

VARIABLES
    pc,                   \* position of the caller in the pipeline
    source_code,          \* argument of compress_code
    file_type,            \* argument of compress_code
    compressed,           \* local `compressed` of compress_code
    detect_text,          \* the text detect_common_patterns was given
    common_patterns,      \* self.common_patterns: <<pattern, count>> in insertion order
    pattern_replacements, \* local of compress_patterns: <<pattern, replacement>>
    artifact,             \* value returned by compress_code
    expand_in,            \* argument of decompress_code
    expanded,             \* value returned by decompress_code
    rename_failed,        \* compress_with_ast took its except branch in this call
    entry_patterns,       \* self.common_patterns when compress_code was entered
    entry_map,            \* <<identifier_map, next_short_id>> when compress_code was entered
    report,               \* value returned by get_compression_report
    next_short_id,        \* self.next_short_id
    issued,               \* identifiers returned by generate_short_identifier, in call order
    identifier_map,       \* IdentifierShortener.identifier_map: <<name, short>> in insertion order
    last_visited,         \* node.id of the latest visit_Name call
    t_pc,                 \* per thread: position in its compress_code call
    t_code,               \* per thread: local `compressed` of its compress_code call
    t_artifact,           \* per thread: value its compress_code call returned
    w_pc,                 \* per thread: position in its add_message call
    w_call,               \* per thread: <<conversation_id, message_data>> of its call
    w_local,              \* per thread: local `conversation` of its add_message call
    w_result,             \* per thread: <<value>> its add_message call returned
    files,                \* conversations_dir: conversation id -> content of <id>.json
    collections,          \* ids that have a collection in the vector repository
    now,                  \* datetime.utcnow(), in seconds
    last_call,            \* the latest repository call: <<method, id, argument, utcnow>>
    prev_files,           \* files when the latest repository call was made
    result,               \* <<value>> returned by the latest repository call, <<>> for None
    repo_calls            \* repository calls made so far

vars == <<pc, source_code, file_type, compressed, detect_text, common_patterns,
          pattern_replacements, artifact, expand_in, expanded,
          rename_failed, entry_patterns, entry_map, report,
          next_short_id, issued, identifier_map, last_visited,
          t_pc, t_code, t_artifact, w_pc, w_call, w_local, w_result,
          files, collections, now, last_call, prev_files, result, repo_calls>>

pipeVars == <<pc, source_code, file_type, compressed, detect_text, common_patterns,
              pattern_replacements, artifact, expand_in, expanded,
              rename_failed, entry_patterns, entry_map, report>>

idVars == <<next_short_id, issued, identifier_map, last_visited>>

\* pipeVars but self.common_patterns
callVars == <<pc, source_code, file_type, compressed, detect_text,
              pattern_replacements, artifact, expand_in, expanded,
              rename_failed, entry_patterns, entry_map, report>>

compressorThreadVars == <<t_pc, t_code, t_artifact>>

writerVars == <<w_pc, w_call, w_local, w_result>>

threadVars == <<t_pc, t_code, t_artifact, w_pc, w_call, w_local, w_result>>

repoVars == <<files, collections, now, last_call, prev_files, result, repo_calls>>

(***************************************************************************)
(* Texts                                                                   *)
(***************************************************************************)
NL == "\n"

\* unit repeated cyclically up to length n
Cycle(unit, n) == [k \in 1..n |-> unit[((k - 1) % Len(unit)) + 1]]

Indices(n) == [k \in 1..n |-> k]

Min(a, b) == IF a < b THEN a ELSE b

Widest(parts) ==
    IF parts = <<>> THEN 0
    ELSE LET lens == {Len(parts[k]) : k \in 1..Len(parts)}
         IN  CHOOSE w \in lens : \A v \in lens : v <= w

\* "".join(parts): the characters of the parts, in order
Flatten(parts) ==
    LET w == Widest(parts)
        part(m) == ((m - 1) \div w) + 1
        char(m) == ((m - 1) % w) + 1
        cells == SelectSeq(Indices(Len(parts) * w),
                           LAMBDA m : char(m) <= Len(parts[part(m)]))
    IN  [j \in 1..Len(cells) |-> parts[part(cells[j])][char(cells[j])]]

\* the characters of s at the offsets where keep is TRUE, in order
Pick(s, keep) ==
    LET kept == SelectSeq(Indices(Len(s)), LAMBDA k : keep[k])
    IN  [j \in 1..Len(kept) |-> s[kept[j]]]

\* value is computed, then rest
Then(value, rest) == IF value = value THEN rest ELSE rest

\* s[pos:pos+len(p)] == p, pos 0-based
MatchAt(s, p, pos) ==
    /\ pos + Len(p) <= Len(s)
    /\ \A k \in 1..Len(p) : s[pos + k] = p[k]

StartsWith(s, p) == MatchAt(s, p, 0)

EndsWith(s, p) == Len(p) <= Len(s) /\ MatchAt(s, p, Len(s) - Len(p))

\* str.find(p, pos): least offset >= pos where p occurs, -1 when none
Find(s, p, pos) ==
    LET last == Len(s) - Len(p)
    IN  IF \E j \in pos..last : MatchAt(s, p, j)
        THEN CHOOSE j \in pos..last :
                 /\ MatchAt(s, p, j)
                 /\ \A i \in pos..(j - 1) : ~MatchAt(s, p, i)
        ELSE -1

\* str.replace(old, new): leftmost, non-overlapping, every occurrence;
\* an empty `old` matches before every character and at the end
RECURSIVE ReplaceFrom(_, _, _, _)
ReplaceFrom(s, old, new, pos) ==
    LET at == Find(s, old, pos)
    IN  IF at = -1 THEN SubSeq(s, pos + 1, Len(s))
        ELSE SubSeq(s, pos + 1, at) \o new \o ReplaceFrom(s, old, new, at + Len(old))

Replace(s, old, new) ==
    IF old = <<>>
    THEN Flatten([k \in 1..(Len(s) + 1) |->
                     IF k <= Len(s) THEN new \o <<s[k]>> ELSE new])
    ELSE ReplaceFrom(s, old, new, 0)

\* str.split(sep) for a one-character separator
Split(s, sep) ==
    LET starts == SelectSeq([k \in 1..(Len(s) + 1) |-> k - 1],
                            LAMBDA k : k = 0 \/ s[k] = sep)
    IN  [m \in 1..Len(starts) |->
            SubSeq(s, starts[m] + 1,
                   IF m < Len(starts) THEN starts[m + 1] - 1 ELSE Len(s))]

\* sep.join(parts)
Join(parts, sep) ==
    Flatten([m \in 1..(2 * Len(parts)) |->
                IF m % 2 = 1 THEN parts[(m + 1) \div 2]
                ELSE IF m < 2 * Len(parts) THEN sep ELSE <<>>])

Lower == {"a", "b", "c", "d", "e", "f", "g", "h", "i", "j", "k", "l", "m",
          "n", "o", "p", "q", "r", "s", "t", "u", "v", "w", "x", "y", "z"}

Upper == {"A", "B", "C", "D", "E", "F", "G", "H", "I", "J", "K", "L", "M",
          "N", "O", "P", "Q", "R", "S", "T", "U", "V", "W", "X", "Y", "Z"}

\* [a-zA-Z]
IsAlpha(ch) == ch \in Lower \cup Upper

\* \s
IsSpace(ch) == ch \in {" ", NL, "\t", "\r"}

\* [{},:;=\(\)\[\]]
IsPunct(ch) == ch \in {"{", "}", ",", ":", ";", "=", "(", ")", "[", "]"}

DigitChars == <<"0", "1", "2", "3", "4", "5", "6", "7", "8", "9">>

\* f"{i}" for a natural number
RECURSIVE Decimal(_)
Decimal(i) ==
    IF i < 10 THEN <<DigitChars[i + 1]>>
    ELSE Decimal(i \div 10) \o <<DigitChars[(i % 10) + 1]>>

(***************************************************************************)
(* CodeCompressor.remove_comments_and_whitespace                           *)
(***************************************************************************)
HeaderPrefix == <<"#", " ", "d", "i", "c", "t", ":">>

\* re.sub(r'#.*$', '', code, flags=re.MULTILINE): a character goes when a
\* '#' stands before it (or is it) on the same line; the newline stays
InComment(s, k) ==
    \E j \in 1..k : s[j] = "#" /\ \A m \in j..k : s[m] # NL

StripLineComments(s) == Pick(s, [k \in 1..Len(s) |-> ~InComment(s, k)])

\* re.sub(r'DDD[\s\S]*?DDD', '', code) for a three-character delimiter DDD:
\* leftmost opening delimiter, nearest closing one
RECURSIVE RemoveDelimited(_, _, _)
RemoveDelimited(s, delim, pos) ==
    LET open == Find(s, delim, pos)
        close == IF open = -1 THEN -1 ELSE Find(s, delim, open + Len(delim))
    IN  IF close = -1 THEN SubSeq(s, pos + 1, Len(s))
        ELSE SubSeq(s, pos + 1, open) \o RemoveDelimited(s, delim, close + Len(delim))

\* re.sub(r'\s+', ' ', code): one space for each run of whitespace
CollapseSpace(s) ==
    LET first == SelectSeq(Indices(Len(s)),
                           LAMBDA k : ~IsSpace(s[k]) \/ k = 1 \/ ~IsSpace(s[k - 1]))
    IN  [j \in 1..Len(first) |-> IF IsSpace(s[first[j]]) THEN " " ELSE s[first[j]]]

\* the whitespace at k belongs to a run that ends right before a punctuation
SpaceBeforePunct(s, k) ==
    \E e \in k..(Len(s) - 1) :
        /\ \A m \in k..e : IsSpace(s[m])
        /\ IsPunct(s[e + 1])

\* the whitespace at k belongs to a run that starts right after a punctuation
SpaceAfterPunct(s, k) ==
    \E b \in 2..k :
        /\ \A m \in b..k : IsSpace(s[m])
        /\ IsPunct(s[b - 1])

\* re.sub(r'\s*([{},:;=\(\)\[\]])\s*', r'\1', code): the whitespace on both
\* sides of every punctuation character goes
TightenPunct(s) ==
    Pick(s, [k \in 1..Len(s) |-> ~(SpaceBeforePunct(s, k) \/ SpaceAfterPunct(s, k))])

\* re.sub(r'^\s+|\s+$', '', code, flags=re.MULTILINE) on a text that holds no
\* newline (CollapseSpace has replaced them all): both ends are stripped
StripEnds(s) ==
    Pick(s, [k \in 1..Len(s) |->
                (\E j \in 1..k : ~IsSpace(s[j])) /\ (\E j \in k..Len(s) : ~IsSpace(s[j]))])

\* re.sub(r'\n+', '\n', code)
CollapseNewlines(s) ==
    Pick(s, [k \in 1..Len(s) |-> ~(s[k] = NL /\ k > 1 /\ s[k - 1] = NL)])

TripleDouble == <<"\"", "\"", "\"">>

TripleSingle == <<"'", "'", "'">>

\* the text remove_comments_and_whitespace returns when it returns
remove_comments_and_whitespace(code, ftype) ==
    IF ftype = "py"
    THEN LET c1 == StripLineComments(code)
             c2 == RemoveDelimited(c1, TripleDouble, 0)
             c3 == RemoveDelimited(c2, TripleSingle, 0)
             c4 == CollapseSpace(c3)
             c5 == TightenPunct(c4)
             c6 == StripEnds(c5)
         IN  CollapseNewlines(c6)
    ELSE code

(***************************************************************************)
(* CodeCompressor.detect_common_patterns                                   *)
(***************************************************************************)
\* a minimum pattern length of 5
min_pattern_length_short == 20 \div 4

min_pattern_length == 20

\* range(self.min_pattern_length, 101): lengths up to 100
pattern_length_stop_inclusive == 100 + 1

pattern_length_stop == 100

\* re.search(r'[a-zA-Z]', pattern)
HasAlpha(p) == \E k \in 1..Len(p) : IsAlpha(p[k])

\* the counting loop: find from pos, count, step one character on, find
\* again; every offset where the pattern occurs is counted once, overlapping
\* occurrences included
CountOccurrences(code, pattern) ==
    Cardinality({j \in 0..(Len(code) - Len(pattern)) : MatchAt(code, pattern, j)})

\* for length in range(self.min_pattern_length, 100): if length > len(code): break
PatternLengths(code) ==
    min_pattern_length..Min(pattern_length_stop - 1, Len(code))

\* the <<length, i>> pairs the two loops run through, in the order they do
LoopPairs(code) ==
    LET lengths == PatternLengths(code)
        offsets == Len(code) - min_pattern_length + 1
        length(m) == min_pattern_length + ((m - 1) \div offsets)
        i(m) == (m - 1) % offsets
        grid == SelectSeq(Indices(Cardinality(lengths) * offsets),
                          LAMBDA m : i(m) < Len(code) - length(m) + 1)
    IN  [j \in 1..Len(grid) |-> <<length(grid[j]), i(grid[j])>>]

\* the iterations that add a key to self.common_patterns.  The assignment
\* self.common_patterns[pattern] = count appends the key the first time and
\* rewrites the same count afterwards, so a pattern enters the dict at the
\* first offset where it occurs
AddsKey(code, pair) ==
    LET pattern == SubSeq(code, pair[2] + 1, pair[2] + pair[1])
    IN  /\ HasAlpha(pattern)
        /\ Find(code, pattern, 0) = pair[2]
        /\ CountOccurrences(code, pattern) > 1

\* self.common_patterns = {} without its effect: the old table stays
TableKept(old) == old

\* self.common_patterns = {}: the table detection starts from, whatever the
\* attribute held before
TableAtStart(old) == <<>>

\* the entries detect_common_patterns adds, in the order the dict holds them
detect_common_patterns(code) ==
    LET added == SelectSeq(LoopPairs(code), LAMBDA pair : AddsKey(code, pair))
    IN  [j \in 1..Len(added) |->
            LET pattern == SubSeq(code, added[j][2] + 1, added[j][2] + added[j][1])
            IN  <<pattern, CountOccurrences(code, pattern)>>]

(***************************************************************************)
(* CodeCompressor.compress_patterns                                        *)
(***************************************************************************)
max_patterns == 30

savings_overhead == 10

\* the filter with count in place of count - 1
QualifiesNoMinusOne(pattern, count) ==
    Len(pattern) * count > Len(pattern) + savings_overhead

\* the filter of the list comprehension
Qualifies(pattern, count) ==
    Len(pattern) * (count - 1) > Len(pattern) + savings_overhead

FilterQualifying(table) == SelectSeq(table, LAMBDA e : Qualifies(e[1], e[2]))

\* key=lambda x: len(x[0])
SortKeyLengthOnly(entry) == Len(entry[1])

\* key=lambda x: len(x[0]) * x[1]
SortKey(entry) == Len(entry[1]) * entry[2]

\* 1-based place of entries[k] in sorted(entries, key=SortKey, reverse=True):
\* after every entry with a larger key and, the sort being stable, after the
\* earlier entries with the same key
SortedPlace(entries, k) ==
    1 + Cardinality({j \in 1..Len(entries) :
                        \/ SortKey(entries[j]) > SortKey(entries[k])
                        \/ SortKey(entries[j]) = SortKey(entries[k]) /\ j < k})

SortDescending(entries) ==
    [place \in 1..Len(entries) |->
        entries[CHOOSE k \in 1..Len(entries) : SortedPlace(entries, k) = place]]

sorted_patterns(table) == SortDescending(FilterQualifying(table))

\* range(len(sorted_patterns)): the loop without its cap
SelectedCountNoCap(sorted) == Len(sorted)

\* range(min(len(sorted_patterns), 30))
SelectedCount(sorted) == Min(Len(sorted), max_patterns)

\* f"##{i + 1}##": markers numbered from 1
MarkerFromOne(i) == <<"#", "#">> \o Decimal(i + 1) \o <<"#", "#">>

\* f"##{i}##"
Marker(i) == <<"#", "#">> \o Decimal(i) \o <<"#", "#">>

\* pattern_replacements when the loop ends: <<pattern, replacement>>
PatternReplacements(table) ==
    LET sorted == sorted_patterns(table)
    IN  [k \in 1..SelectedCount(sorted) |-> <<sorted[k][1], Marker(k - 1)>>]

\* the loop's compressed = compressed.replace(pattern, replacement)
RECURSIVE ApplyReplacements(_, _, _)
ApplyReplacements(code, reps, k) ==
    IF k > Len(reps) THEN code
    ELSE LET replaced == Replace(code, reps[k][1], reps[k][2])
         IN  Then(replaced, ApplyReplacements(replaced, reps, k + 1))

\* ";".join([f"{replacement}={pattern}" ...])
Dictionary(reps) ==
    Join([k \in 1..Len(reps) |-> reps[k][2] \o <<"=">> \o reps[k][1]], <<";">>)

\* f"# dict:{dictionary}\n{compressed}"
compress_patterns(code, table) ==
    LET reps == PatternReplacements(table)
    IN  HeaderPrefix \o Dictionary(reps) \o <<NL>> \o ApplyReplacements(code, reps, 1)

(***************************************************************************)
(* CodeCompressor.decompress_code                                          *)
(***************************************************************************)
\* re.search in place of re.match: the header is looked for anywhere
HeaderEndSearch(text) ==
    LET at == Find(text, HeaderPrefix, 0)
    IN  IF at = -1 THEN -1 ELSE Find(text, <<NL>>, at + Len(HeaderPrefix))

\* re.match(r'# dict:(.*?)\n', text): offset of the newline ending the header
\* line, -1 when the text does not match
HeaderEnd(text) ==
    IF StartsWith(text, HeaderPrefix) THEN Find(text, <<NL>>, Len(HeaderPrefix)) ELSE -1

\* re.sub(r'# dict:.*?\n', '', text): every non-overlapping match is removed
RECURSIVE StripHeaders(_, _)
StripHeaders(text, pos) ==
    LET at == Find(text, HeaderPrefix, pos)
        nl == IF at = -1 THEN -1 ELSE Find(text, <<NL>>, at + Len(HeaderPrefix))
    IN  IF nl = -1 THEN SubSeq(text, pos + 1, Len(text))
        ELSE SubSeq(text, pos + 1, at) \o StripHeaders(text, nl + 1)

\* for item in dictionary.split(';'): if '=' in item: replace
\* the items that pass if '=' in item
HasEquals(item) == \E k \in 1..Len(item) : item[k] = "="

\* replacement, pattern = item.split('=', 1); code = code.replace(replacement, pattern)
RECURSIVE ExpandItems(_, _, _)
ExpandItems(code, items, k) ==
    IF k > Len(items) THEN code
    ELSE LET item == items[k]
             eq == Find(item, <<"=">>, 0)
             replaced == Replace(code, SubSeq(item, 1, eq),
                                 SubSeq(item, eq + 2, Len(item)))
         IN  Then(replaced, ExpandItems(replaced, items, k + 1))

decompress_code(text) ==
    LET end == HeaderEnd(text)
    IN  IF end = -1 THEN text
        ELSE LET dictionary == SubSeq(text, Len(HeaderPrefix) + 1, end)
                 items == SelectSeq(Split(dictionary, ";"), HasEquals)
             IN  ExpandItems(StripHeaders(text, 0), items, 1)

(***************************************************************************)
(* IdentifierShortener (and the generator CodeCompressor repeats)          *)
(***************************************************************************)
\* self.reserved_words
reserved_words == {
    <<"F", "a", "l", "s", "e">>, <<"N", "o", "n", "e">>,
    <<"T", "r", "u", "e">>, <<"a", "n", "d">>, <<"a", "s">>,
    <<"a", "s", "s", "e", "r", "t">>, <<"a", "s", "y", "n", "c">>,
    <<"a", "w", "a", "i", "t">>, <<"b", "r", "e", "a", "k">>,
    <<"c", "l", "a", "s", "s">>, <<"c", "o", "n", "t", "i", "n", "u", "e">>,
    <<"d", "e", "f">>, <<"d", "e", "l">>, <<"e", "l", "i", "f">>,
    <<"e", "l", "s", "e">>, <<"e", "x", "c", "e", "p", "t">>,
    <<"f", "i", "n", "a", "l", "l", "y">>, <<"f", "o", "r">>,
    <<"f", "r", "o", "m">>, <<"g", "l", "o", "b", "a", "l">>, <<"i", "f">>,
    <<"i", "m", "p", "o", "r", "t">>, <<"i", "n">>, <<"i", "s">>,
    <<"l", "a", "m", "b", "d", "a">>,
    <<"n", "o", "n", "l", "o", "c", "a", "l">>, <<"n", "o", "t">>,
    <<"o", "r">>, <<"p", "a", "s", "s">>, <<"r", "a", "i", "s", "e">>,
    <<"r", "e", "t", "u", "r", "n">>, <<"t", "r", "y">>,
    <<"w", "h", "i", "l", "e">>, <<"w", "i", "t", "h">>,
    <<"y", "i", "e", "l", "d">>
}

\* chars = 'abcdefghijklmnopqrstuvwxyzABCDEFGHIJKLMNOPQRSTUVWXYZ'
chars == <<
    "a", "b", "c", "d", "e", "f", "g", "h", "i", "j", "k", "l", "m",
    "n", "o", "p", "q", "r", "s", "t", "u", "v", "w", "x", "y", "z",
    "A", "B", "C", "D", "E", "F", "G", "H", "I", "J", "K", "L", "M",
    "N", "O", "P", "Q", "R", "S", "T", "U", "V", "W", "X", "Y", "Z"
>>

\* generate_short_identifier with the first symbol taken from id_num itself
ShortIdentifierNoDivision(id_num) ==
    IF id_num < Len(chars) THEN <<chars[id_num + 1]>>
    ELSE <<chars[(id_num % Len(chars)) + 1], chars[(id_num % Len(chars)) + 1]>>

\* generate_short_identifier with the first symbol wrapping one symbol early
ShortIdentifierEarlyWrap(id_num) ==
    IF id_num < Len(chars) THEN <<chars[id_num + 1]>>
    ELSE <<chars[((id_num \div Len(chars)) % (Len(chars) - 1)) + 1],
           chars[(id_num % Len(chars)) + 1]>>

\* the string generate_short_identifier returns when self.next_short_id is id_num
ShortIdentifier(id_num) ==
    IF id_num < Len(chars) THEN <<chars[id_num + 1]>>
    ELSE <<chars[((id_num \div Len(chars)) % Len(chars)) + 1],
           chars[(id_num % Len(chars)) + 1]>>

\* re.match(r'^[A-Z_]+$', name)
AllUpperOrUnderscore(name) ==
    /\ name # <<>>
    /\ \A k \in 1..Len(name) : name[k] \in Upper \cup {"_"}

\* visit_Name without the startswith('_') test
IsKeptNoPrivate(name) ==
    \/ name \in reserved_words
    \/ StartsWith(name, <<"_", "_">>)
    \/ EndsWith(name, <<"_", "_">>)
    \/ AllUpperOrUnderscore(name)

\* visit_Name without the test for constants
IsKeptNoConstant(name) ==
    \/ name \in reserved_words
    \/ StartsWith(name, <<"_", "_">>)
    \/ EndsWith(name, <<"_", "_">>)
    \/ StartsWith(name, <<"_">>)

\* the condition under which visit_Name returns the node as it is
IsKept(name) ==
    \/ name \in reserved_words
    \/ StartsWith(name, <<"_", "_">>)
    \/ EndsWith(name, <<"_", "_">>)
    \/ StartsWith(name, <<"_">>)
    \/ AllUpperOrUnderscore(name)

\* self.identifier_map[name], for a name that is a key
MapGet(map, name) == LET k == CHOOSE k \in 1..Len(map) : map[k][1] = name IN map[k][2]

MapHas(map, name) == \E k \in 1..Len(map) : map[k][1] = name

\* visit_Name on a node whose id is name: the map and the counter afterwards
visit_Name(map, next, name) ==
    IF IsKept(name) \/ MapHas(map, name) THEN <<map, next>>
    ELSE <<Append(map, <<name, ShortIdentifier(next)>>), next + 1>>

(***************************************************************************)
(* CodeCompressor.compress_with_ast                                        *)
(*                                                                         *)
(* ast.parse and astor.to_source are collaborators.  When both succeed the *)
(* rendered text is taken to be the given text with every identifier token *)
(* passed through visit_Name of a fresh IdentifierShortener, followed by   *)
(* the newline to_source ends its output with.                             *)
(***************************************************************************)
IsIdentStart(ch) == IsAlpha(ch) \/ ch = "_"

IsIdentChar(ch) == IsIdentStart(ch) \/ \E k \in 1..Len(DigitChars) : DigitChars[k] = ch

\* an identifier token starts at k
IsTokenStart(s, k) == IsIdentChar(s[k]) /\ (k = 1 \/ ~IsIdentChar(s[k - 1]))

TokenFirst(s, k) ==
    CHOOSE b \in 1..k : IsTokenStart(s, b) /\ \A m \in b..k : IsIdentChar(s[m])

TokenLast(s, k) ==
    CHOOSE e \in k..Len(s) :
        /\ \A m \in k..e : IsIdentChar(s[m])
        /\ e = Len(s) \/ ~IsIdentChar(s[e + 1])

Token(s, k) == SubSeq(s, TokenFirst(s, k), TokenLast(s, k))

\* a Name node: a token that does not start with a digit
InName(s, k) == IsIdentChar(s[k]) /\ IsIdentStart(s[TokenFirst(s, k)])

\* the ids of the Name nodes, in source order
NameNodes(s) ==
    LET starts == SelectSeq(Indices(Len(s)),
                            LAMBDA k : IsTokenStart(s, k) /\ InName(s, k))
    IN  [j \in 1..Len(starts) |-> Token(s, starts[j])]

\* transformer.visit(tree): visit_Name on every Name node; the transformer's
\* map and counter afterwards
RECURSIVE VisitAll(_, _, _, _)
VisitAll(names, k, map, next) ==
    IF k > Len(names) THEN <<map, next>>
    ELSE LET after == visit_Name(map, next, names[k])
         IN  Then(after, VisitAll(names, k + 1, after[1], after[2]))

\* the transformer carrying on with the map and the counter of the one
\* before it
TransformerCarried(map, next) == <<map, next>>

\* IdentifierShortener(self.reserved_words): __init__ gives the new
\* transformer an empty map and the counter 0, whatever the transformer of
\* an earlier call ended with
NewTransformer(map, next) == <<<<>>, 0>>

\* to_source(transformed_tree) without its final newline: every Name node
\* shows the id visit_Name gave it
RenderRenamed(s) ==
    LET map == VisitAll(NameNodes(s), 1, <<>>, 0)[1]
        shown(name) == IF IsKept(name) THEN name ELSE MapGet(map, name)
    IN  Flatten([k \in 1..Len(s) |->
                    IF ~InName(s, k) THEN <<s[k]>>
                    ELSE IF IsTokenStart(s, k) THEN shown(Token(s, k))
                    ELSE <<>>])

\* compress_with_ast returning the rendered text whatever happened
compress_with_ast_not_fail_open(code, outcome) ==
    TightenPunct(CollapseSpace(RenderRenamed(code) \o <<NL>>))

\* what compress_with_ast returns: outcome "ok" when import, parse, transform
\* and render all succeed, "fail" when any of them raises
compress_with_ast(code, outcome) ==
    IF outcome = "ok"
    THEN LET compressed_code == RenderRenamed(code) \o <<NL>>
         IN  TightenPunct(CollapseSpace(compressed_code))
    ELSE code

(***************************************************************************)
(* CodeCompressor.get_compression_report, estimate_tokens                  *)
(***************************************************************************)
\* len(text) / 4 rounded down
estimate_tokens_floor(length) == length \div 4

\* math.ceil(len(text) / 4)
estimate_tokens(length) ==
    IF length % 4 = 0 THEN length \div 4 ELSE (length \div 4) + 1

\* what f"{numer / denom * 100:.2f}" can show, in hundredths: the nearest
\* hundredth; when the quotient lies exactly between two hundredths the last
\* bit of the float decides, so both neighbours are possible
Percent(numer, denom) ==
    LET scaled == numer * 10000
        q == scaled \div denom
        r == scaled % denom
    IN  IF 2 * r < denom THEN {q}
        ELSE IF 2 * r > denom THEN {q + 1}
        ELSE {q, q + 1}

\* the ratio fields: 100 when the divisor is 0
RatioShown(numer, denom) == IF denom > 0 THEN Percent(numer, denom) ELSE {10000}

\* the numbers the report shows, ratios in hundredths of a percent
get_compression_report(original, compacted, ratio, token_ratio) ==
    [original_length |-> Len(original),
     compressed_length |-> Len(compacted),
     ratio |-> ratio,
     original_tokens |-> estimate_tokens(Len(original)),
     compressed_tokens |-> estimate_tokens(Len(compacted)),
     token_ratio |-> token_ratio]

(***************************************************************************)
(* FileConversationRepository                                              *)
(*                                                                         *)
(* A conversation is a function from keys to values, as the dict is.  The  *)
(* file <id>.json holds what json.dump wrote, and json.load gives back an  *)
(* equal dict for the dicts used here (string keys; strings, numbers and   *)
(* lists as values).  Timestamps are whole seconds.                        *)
(***************************************************************************)
None == <<>>

\* d[key] = value
SetKey(d, key, value) ==
    [k \in DOMAIN d \cup {key} |-> IF k = key THEN value ELSE d[k]]

\* save: <id>.json is written, replacing what it held
save(fs, id, data) ==
    [k \in DOMAIN fs \cup {id} |-> IF k = id THEN data ELSE fs[k]]

\* find_by_id: the content of <id>.json, None when there is no such file
find_by_id(fs, id) == IF id \in DOMAIN fs THEN <<fs[id]>> ELSE None

\* `not conversation`: None, or a dict without keys
IsFalsy(found) == found = None \/ DOMAIN found[1] = {}

\* delete answering True whether or not the file was there
delete_always_true(fs, id) == <<[k \in DOMAIN fs \ {id} |-> fs[k]], TRUE>>

\* delete: <<files afterwards, value returned>>
delete(fs, id) ==
    IF id \in DOMAIN fs
    THEN <<[k \in DOMAIN fs \ {id} |-> fs[k]], TRUE>>
    ELSE <<fs, FALSE>>

\* the loop over updates.items() without the test on 'id'
ApplyUpdatesWithId(conversation, updates) ==
    [k \in DOMAIN conversation \cup DOMAIN updates |->
        IF k \in DOMAIN updates THEN updates[k] ELSE conversation[k]]

\* the loop over updates.items() that leaves 'id' alone
ApplyUpdates(conversation, updates) ==
    [k \in DOMAIN conversation \cup (DOMAIN updates \ {"id"}) |->
        IF k \in DOMAIN updates /\ k # "id" THEN updates[k] ELSE conversation[k]]

\* update at time utcnow: <<files afterwards, value returned>>
update(fs, id, updates, utcnow) ==
    LET found == find_by_id(fs, id)
    IN  IF IsFalsy(found) THEN <<fs, None>>
        ELSE LET conversation ==
                     SetKey(ApplyUpdates(found[1], updates), "updated_at", utcnow)
             IN  <<save(fs, id, conversation), <<conversation>>>>

\* seconds within which an equal message counts as a duplicate
duplicate_window == 5

Abs(x) == IF x < 0 THEN 0 - x ELSE x

\* the test without the 5-second window
IsDuplicateOfAnyTime(existing_message, message_data) ==
    /\ existing_message.content = message_data.content
    /\ existing_message.role = message_data.role

\* the test in the loop over reversed(conversation["messages"])
IsDuplicateOf(existing_message, message_data) ==
    /\ existing_message.content = message_data.content
    /\ existing_message.role = message_data.role
    /\ Abs(message_data.timestamp - existing_message.timestamp) < duplicate_window

\* add_message at time utcnow: <<files afterwards, value returned>>
add_message(fs, id, message_data, utcnow) ==
    LET found == find_by_id(fs, id)
    IN  IF IsFalsy(found) THEN <<fs, None>>
        ELSE LET conversation == found[1]
                 messages == IF "messages" \in DOMAIN conversation
                             THEN conversation.messages ELSE <<>>
                 message == IF "timestamp" \in DOMAIN message_data THEN message_data
                            ELSE SetKey(message_data, "timestamp", utcnow)
                 duplicates == {k \in 1..Len(messages) : IsDuplicateOf(messages[k], message)}
             IN  IF duplicates # {}
                 THEN <<fs, <<messages[CHOOSE k \in duplicates :
                                          \A j \in duplicates : j <= k]>>>>
                 ELSE LET appended == SetKey(conversation, "messages",
                                             Append(messages, message))
                      IN  <<save(fs, id, SetKey(appended, "updated_at", utcnow)),
                            <<message>>>>

(***************************************************************************)
(* ConversationService.get_conversation_history, MessageDTO.from_dict      *)
(***************************************************************************)
\* MessageDTO.from_dict: id, role, content and timestamp are read with get
\* and their defaults
MessageDTO_from_dict(data, utcnow) ==
    [id |-> IF "id" \in DOMAIN data THEN <<data.id>> ELSE None,
     role |-> IF "role" \in DOMAIN data THEN data.role ELSE "",
     content |-> IF "content" \in DOMAIN data THEN data.content ELSE "",
     timestamp |-> IF "timestamp" \in DOMAIN data THEN data.timestamp ELSE utcnow]

\* messages[-max_messages:] for max_messages >= 0: -0 is 0, so the slice
\* starts at the front when max_messages is 0
SliceFromEnd(messages, max_messages) ==
    LET start == IF max_messages = 0 THEN 0
                 ELSE IF max_messages > Len(messages) THEN 0
                 ELSE Len(messages) - max_messages
    IN  SubSeq(messages, start + 1, Len(messages))

\* the list get_conversation_history returns
get_conversation_history(fs, id, max_messages, utcnow) ==
    LET conversation_data == find_by_id(fs, id)
    IN  IF IsFalsy(conversation_data) THEN <<>>
        ELSE LET messages_data == IF "messages" \in DOMAIN conversation_data[1]
                                  THEN conversation_data[1].messages ELSE <<>>
                 messages == [k \in 1..Len(messages_data) |->
                                 MessageDTO_from_dict(messages_data[k], utcnow)]
             IN  IF Len(messages) > max_messages
                 THEN SliceFromEnd(messages, max_messages)
                 ELSE messages

(***************************************************************************)
(* Inputs                                                                  *)
(***************************************************************************)
\* longest repeated run in a source text
MaxLen == 52

\* a character ast.parse cannot encode (a lone surrogate, U+D800)
Surrogate == "\\ud800"

FileTypes == {"py", "js"}

Units == {<<"a">>, <<"a", ";">>, <<"a", NL>>, <<"0", "=">>, <<"a", "b", " ">>}

Lengths == {0, 19, 22, 24, MaxLen}

Pres == {<<>>, <<"#", "#", "0">>, <<"#", "a", NL>>,
         <<"\"", "\"", "\"", "b", "\"", "\"", "\"">>}

Posts == {<<>>, <<"b">>, HeaderPrefix \o <<"b", NL, "b">>}

\* def process_items():  -- a line of exactly min_pattern_length characters
ShortestLine ==
    <<"d", "e", "f", " ", "p", "r", "o", "c", "e", "s", "s", "_", "i", "t",
      "e", "m", "s", "(", ")", ":">>

\* def process_item(item):
LongerLine ==
    <<"d", "e", "f", " ", "p", "r", "o", "c", "e", "s", "s", "_", "i", "t",
      "e", "m", "(", "i", "t", "e", "m", ")", ":">>

RepeatedLines == {ShortestLine, LongerLine}

\* the line three times, with the lines 1 and 2 in between
RepeatedLineText(line) ==
    line \o <<NL, "1", NL>> \o line \o <<NL, "2", NL>> \o line

\* the shortest text in which a substring of pattern_length_stop characters
\* occurs twice
LongRun == Cycle(<<"a">>, pattern_length_stop + 1)

\* '#' and a run of a's, min_pattern_length characters in all
HashRun == <<"#">> \o Cycle(<<"a">>, min_pattern_length - 1)

\* a run of min_pattern_length b's
PlainRun == Cycle(<<"b">>, min_pattern_length)

\* HashRun three times, PlainRun three times, the last one followed by the
\* a's of HashRun; single digits keep the repeats apart
MarkerTailText ==
    HashRun \o <<"1">> \o HashRun \o <<"2">> \o HashRun \o <<"3">>
        \o PlainRun \o <<"4">> \o PlainRun \o <<"5">> \o PlainRun
        \o Cycle(<<"a">>, min_pattern_length - 1)

\* ab __a__ _a A_B if a__ cd ab A1 cd: names of every kind visit_Name tells
\* apart, two of them used twice
NamesText ==
    Join(<< <<"a", "b">>, <<"_", "_", "a", "_", "_">>, <<"_", "a">>,
            <<"A", "_", "B">>, <<"i", "f">>, <<"a", "_", "_">>, <<"c", "d">>,
            <<"a", "b">>, <<"A", "1">>, <<"c", "d">> >>, <<" ">>)

\* the constant A and then x1, x2, ...: as many names to rename as it takes
\* the generator to reach the identifier A
ManyNamesText ==
    LET upper == CHOOSE k \in 1..Len(chars) : chars[k] = "A"
    IN  Join([k \in 1..(upper + 1) |->
                 IF k = 1 THEN <<"A">> ELSE <<"x">> \o Decimal(k - 1)], <<" ">>)

Sources ==
    {pre \o Cycle(unit, n) \o post :
        pre \in Pres, unit \in Units, n \in Lengths, post \in Posts}
    \cup {<<Surrogate>>}
    \cup {RepeatedLineText(line) : line \in RepeatedLines}
    \cup {LongRun}
    \cup {MarkerTailText}
    \cup {NamesText}
    \cup {ManyNamesText}

\* texts handed to decompress_code that no compress_code call produced
ExpanderInputs == {
    <<>>,
    <<"a">>,
    <<"a">> \o HeaderPrefix \o <<NL, "b">>,
    <<" ">> \o HeaderPrefix \o Marker(0) \o <<"=", "b", NL>> \o Marker(0),
    <<"#", " ", "d", "i", "c">>,
    Marker(0) \o <<"=", "a", NL>> \o Marker(0),
    HeaderPrefix,
    HeaderPrefix \o <<NL, "b">>,
    HeaderPrefix \o <<"a", "=", "b", NL, "a", "a">>,
    HeaderPrefix \o <<"a", NL, "a", "b">>,
    HeaderPrefix \o Marker(0) \o <<"=", "a", "b", NL>> \o Marker(0) \o Marker(0),
    HeaderPrefix \o <<NL, "a">> \o HeaderPrefix \o <<"b", NL, "b">>
}

\* how ast.parse(code) ends: it returns, raises SyntaxError, or raises an
\* error that is no SyntaxError (UnicodeEncodeError for a lone surrogate)
ParseOutcomes(code) ==
    IF \E k \in 1..Len(code) : code[k] = Surrogate
    THEN {"UnicodeEncodeError"}
    ELSE {"ok", "SyntaxError"}

\* callers that share one CodeCompressor instance
Threads == {1, 2}

\* texts the sharing callers compress
SharedSources == {
    <<>>,
    Cycle(<<"a">>, 24),
    Cycle(<<"a", ";">>, 24),
    Cycle(<<"a", "b", " ">>, 22)
}

\* ids of conversations
ConversationIds == {"c1", "c2"}

\* what the clock shows when it is read
ClockReadings == {0, 4, 5}

\* repository calls in one run
MaxRepositoryCalls == 4

\* message_data the two threads give to add_message
WriterMessages == {
    [role |-> "user", content |-> "hi"],
    [role |-> "user", content |-> "yo"]
}

\* max_messages given to get_conversation_history
HistoryLimits == {0, 1, 2}

\* conversation_data given to save
ConversationData == {
    [k \in {} |-> k],
    [id |-> "c1", title |-> "t"],
    [id |-> "c1", title |-> "t", updated_at |-> 0, messages |-> <<>>]
}

\* updates given to update
UpdateData == {
    [title |-> "u"],
    [id |-> "c9", title |-> "u"],
    [updated_at |-> 99]
}

\* message_data given to add_message
MessageData == {
    [role |-> "user", content |-> "hi"],
    [role |-> "user", content |-> "hi", timestamp |-> 0],
    [role |-> "assistant", content |-> "hi"]
}

(***************************************************************************)
(* Spec: one CodeCompressor instance                                       *)
(***************************************************************************)
Init ==
    /\ pc = "idle"
    /\ source_code = <<>>
    /\ file_type = "py"
    /\ compressed = <<>>
    /\ detect_text = <<>>
    /\ common_patterns = <<>>
    /\ pattern_replacements = <<>>
    /\ artifact = <<>>
    /\ expand_in = <<>>
    /\ expanded = <<>>
    /\ rename_failed = FALSE
    /\ entry_patterns = <<>>
    /\ entry_map = <<<<>>, 0>>
    /\ report = <<>>
    /\ next_short_id = 0
    /\ issued = <<>>
    /\ identifier_map = <<>>
    /\ last_visited = <<>>
    /\ t_pc = [t \in Threads |-> "idle"]
    /\ t_code = [t \in Threads |-> <<>>]
    /\ t_artifact = [t \in Threads |-> <<>>]
    /\ w_pc = [t \in Threads |-> "idle"]
    /\ w_call = [t \in Threads |-> <<>>]
    /\ w_local = [t \in Threads |-> <<>>]
    /\ w_result = [t \in Threads |-> <<>>]
    /\ files = <<>>
    /\ collections = ConversationIds
    /\ now = 0
    /\ last_call = <<>>
    /\ prev_files = <<>>
    /\ result = <<>>
    /\ repo_calls = 0

\* compress_code(src, ftype) is entered with a source text from srcs
EnterCompressCode(srcs) ==
    /\ \E src \in srcs, ftype \in FileTypes :
          /\ source_code' = src
          /\ file_type' = ftype
    /\ pc' = "normalize"
    /\ rename_failed' = FALSE
    /\ entry_patterns' = common_patterns
    /\ entry_map' = <<identifier_map, next_short_id>>
    /\ UNCHANGED <<compressed, detect_text, common_patterns, pattern_replacements,
                   artifact, expand_in, expanded, report>>
    /\ UNCHANGED <<idVars, threadVars, repoVars>>

\* a caller enters compress_code on a new instance
CallCompressCode == pc = "idle" /\ EnterCompressCode(Sources)

\* phase 1: remove_comments_and_whitespace; for 'py' it calls ast.parse first
\* and catches SyntaxError only
RemoveCommentsAndWhitespace ==
    /\ pc = "normalize"
    /\ \E parsed \in ParseOutcomes(source_code) :
          IF file_type = "py" /\ parsed \notin {"ok", "SyntaxError"}
          THEN /\ pc' = "raised"
               /\ UNCHANGED compressed
          ELSE /\ pc' = "detect"
               /\ compressed' = remove_comments_and_whitespace(source_code, file_type)
    /\ UNCHANGED <<source_code, file_type, detect_text, common_patterns,
                   pattern_replacements, artifact, expand_in, expanded,
                   rename_failed, entry_patterns, entry_map, report>>
    /\ UNCHANGED <<idVars, threadVars, repoVars>>

\* phase 2: detect_common_patterns(compressed)
DetectCommonPatterns ==
    /\ pc = "detect"
    /\ detect_text' = compressed
    /\ common_patterns' = TableAtStart(common_patterns) \o detect_common_patterns(compressed)
    /\ pc' = IF file_type = "py" THEN "rename" ELSE "substitute"
    /\ UNCHANGED <<source_code, file_type, compressed, pattern_replacements,
                   artifact, expand_in, expanded, rename_failed, entry_patterns, entry_map, report>>
    /\ UNCHANGED <<idVars, threadVars, repoVars>>

\* phase 3: compress_with_ast(compressed); every Exception is caught.
\* identifier_map and next_short_id show the transformer the call made
CompressWithAst ==
    /\ pc = "rename"
    /\ \E outcome \in {"ok", "fail"} :
          /\ outcome = "ok" => "ok" \in ParseOutcomes(compressed)
          /\ compressed' = compress_with_ast(compressed, outcome)
          /\ rename_failed' = (outcome # "ok")
          /\ LET transformer == NewTransformer(identifier_map, next_short_id)
                 visited == VisitAll(NameNodes(compressed), 1,
                                     transformer[1], transformer[2])
             IN  IF outcome = "ok"
                 THEN /\ identifier_map' = visited[1]
                      /\ next_short_id' = visited[2]
                 ELSE UNCHANGED <<identifier_map, next_short_id>>
    /\ pc' = "substitute"
    /\ UNCHANGED <<source_code, file_type, detect_text, common_patterns,
                   pattern_replacements, artifact, expand_in, expanded,
                   entry_patterns, entry_map, report>>
    /\ UNCHANGED <<issued, last_visited>>
    /\ UNCHANGED <<threadVars, repoVars>>

\* phase 4: compress_patterns(compressed), and compress_code returns
CompressPatterns ==
    /\ pc = "substitute"
    /\ pattern_replacements' = PatternReplacements(common_patterns)
    /\ artifact' = compress_patterns(compressed, common_patterns)
    /\ pc' = "returned"
    /\ UNCHANGED <<source_code, file_type, compressed, detect_text, common_patterns,
                   expand_in, expanded, rename_failed, entry_patterns, entry_map, report>>
    /\ UNCHANGED <<idVars, threadVars, repoVars>>

\* get_compression_report(source_code, artifact) on what compress_code returned
GetCompressionReport ==
    /\ pc = "returned"
    /\ report = <<>>
    /\ \E ratio \in RatioShown(Len(artifact), Len(source_code)),
          token_ratio \in RatioShown(estimate_tokens(Len(artifact)),
                                     estimate_tokens(Len(source_code))) :
          report' = get_compression_report(source_code, artifact, ratio, token_ratio)
    /\ UNCHANGED <<pc, source_code, file_type, compressed, detect_text, common_patterns,
                   pattern_replacements, artifact, expand_in, expanded,
                   rename_failed, entry_patterns, entry_map>>
    /\ UNCHANGED <<idVars, threadVars, repoVars>>

\* decompress_code on the artifact compress_code returned
DecompressArtifact ==
    /\ pc = "returned"
    /\ expand_in' = artifact
    /\ expanded' = decompress_code(artifact)
    /\ pc' = "expanded"
    /\ UNCHANGED <<source_code, file_type, compressed, detect_text, common_patterns,
                   pattern_replacements, artifact, rename_failed, entry_patterns, entry_map, report>>
    /\ UNCHANGED <<idVars, threadVars, repoVars>>

\* decompress_code on a text from elsewhere
DecompressText ==
    /\ pc = "idle"
    /\ \E text \in ExpanderInputs :
          /\ expand_in' = text
          /\ expanded' = decompress_code(text)
    /\ pc' = "expanded_text"
    /\ UNCHANGED <<source_code, file_type, compressed, detect_text, common_patterns,
                   pattern_replacements, artifact, rename_failed, entry_patterns, entry_map, report>>
    /\ UNCHANGED <<idVars, threadVars, repoVars>>

Next ==
    \/ CallCompressCode
    \/ RemoveCommentsAndWhitespace
    \/ DetectCommonPatterns
    \/ CompressWithAst
    \/ CompressPatterns
    \/ GetCompressionReport
    \/ DecompressArtifact
    \/ DecompressText

Spec == Init /\ [][Next]_vars

(***************************************************************************)
(* SpecReuse: compress_code called again and again on one CodeCompressor   *)
(***************************************************************************)
ReuseSources == {
    <<>>,
    Cycle(<<"a">>, 24),
    Cycle(<<"a", ";">>, 24),
    Cycle(<<"a", "b", " ">>, 22),
    RepeatedLineText(ShortestLine)
}

\* a caller enters compress_code on the instance, new or used before
CallOnSameInstance == pc \in {"idle", "returned"} /\ EnterCompressCode(ReuseSources)

NextReuse ==
    \/ CallOnSameInstance
    \/ RemoveCommentsAndWhitespace
    \/ DetectCommonPatterns
    \/ CompressWithAst
    \/ CompressPatterns

SpecReuse == Init /\ [][NextReuse]_vars

(***************************************************************************)
(* SpecShared: two callers run compress_code(x, 'js') on one shared        *)
(* CodeCompressor.  For a file type other than 'py' phase 1 returns the    *)
(* text as it is and phase 3 is skipped.  Each phase is one step; the      *)
(* steps of the two calls interleave freely.                               *)
(***************************************************************************)
ThreadCall(t) ==
    /\ t_pc[t] = "idle"
    /\ \E src \in SharedSources :
          t_code' = [t_code EXCEPT ![t] = remove_comments_and_whitespace(src, "js")]
    /\ t_pc' = [t_pc EXCEPT ![t] = "detect"]
    /\ UNCHANGED <<t_artifact, common_patterns>>
    /\ UNCHANGED <<callVars, idVars, repoVars, writerVars>>

ThreadDetect(t) ==
    /\ t_pc[t] = "detect"
    /\ common_patterns' = TableAtStart(common_patterns) \o detect_common_patterns(t_code[t])
    /\ t_pc' = [t_pc EXCEPT ![t] = "substitute"]
    /\ UNCHANGED <<t_code, t_artifact>>
    /\ UNCHANGED <<callVars, idVars, repoVars, writerVars>>

ThreadSubstitute(t) ==
    /\ t_pc[t] = "substitute"
    /\ t_artifact' = [t_artifact EXCEPT ![t] = compress_patterns(t_code[t], common_patterns)]
    /\ t_pc' = [t_pc EXCEPT ![t] = "returned"]
    /\ UNCHANGED <<t_code, common_patterns>>
    /\ UNCHANGED <<callVars, idVars, repoVars, writerVars>>

NextShared ==
    \/ \E t \in Threads : ThreadCall(t)
    \/ \E t \in Threads : ThreadDetect(t)
    \/ \E t \in Threads : ThreadSubstitute(t)

SpecShared == Init /\ [][NextShared]_vars

(***************************************************************************)
(* SpecRepo: calls on one FileConversationRepository, one at a time        *)
(***************************************************************************)
\* what every call leaves behind
Called(method, id, argument) ==
    /\ repo_calls < MaxRepositoryCalls
    /\ repo_calls' = repo_calls + 1
    /\ last_call' = <<method, id, argument, now>>
    /\ prev_files' = files
    /\ UNCHANGED now
    /\ UNCHANGED <<pipeVars, idVars, threadVars>>

Save ==
    \E id \in ConversationIds, data \in ConversationData :
        /\ Called("save", id, data)
        /\ files' = save(files, id, data)
        /\ result' = <<data>>
        /\ UNCHANGED collections

\* the collection is deleted too, unless that fails
Delete ==
    \E id \in ConversationIds :
        /\ Called("delete", id, <<>>)
        /\ files' = delete(files, id)[1]
        /\ result' = <<delete(files, id)[2]>>
        /\ IF delete(files, id)[2]
           THEN collections' \in {collections, collections \ {id}}
           ELSE UNCHANGED collections

Update ==
    \E id \in ConversationIds, updates \in UpdateData :
        /\ Called("update", id, updates)
        /\ files' = update(files, id, updates, now)[1]
        /\ result' = update(files, id, updates, now)[2]
        /\ UNCHANGED collections

AddMessage ==
    \E id \in ConversationIds, message_data \in MessageData :
        /\ Called("add_message", id, message_data)
        /\ files' = add_message(files, id, message_data, now)[1]
        /\ result' = add_message(files, id, message_data, now)[2]
        /\ UNCHANGED collections

\* ConversationService.get_conversation_history on a service that holds
\* the repository
GetConversationHistory ==
    \E id \in ConversationIds, max_messages \in HistoryLimits :
        /\ Called("get_conversation_history", id, max_messages)
        /\ result' = <<get_conversation_history(files, id, max_messages, now)>>
        /\ UNCHANGED <<files, collections>>

\* time passes between two calls
ClockAdvances ==
    /\ \E later \in ClockReadings : later > now /\ now' = later
    /\ UNCHANGED <<files, collections, last_call, prev_files, result, repo_calls>>
    /\ UNCHANGED <<pipeVars, idVars, threadVars>>

NextRepo ==
    \/ Save
    \/ Delete
    \/ Update
    \/ AddMessage
    \/ GetConversationHistory
    \/ ClockAdvances

SpecRepo == Init /\ [][NextRepo]_vars

(***************************************************************************)
(* SpecWriters: two threads call add_message on one repository.  The call  *)
(* reads <id>.json (find_by_id), works on the dict it has read, and writes *)
(* the file (save); nothing holds the other thread off in between.  A      *)
(* conversation is stored while no add_message call is under way.          *)
(***************************************************************************)
\* a conversation is stored, no add_message call being under way
StoreConversation ==
    /\ \A t \in Threads : w_pc[t] = "idle"
    /\ Save
    /\ UNCHANGED writerVars

\* lines 164-191: find_by_id, the timestamp, the duplicate check and the
\* append to the dict that was read; the call returns here when it finds no
\* conversation or a duplicate
WriterReads(t) ==
    /\ w_pc[t] = "idle"
    /\ \E id \in ConversationIds, message_data \in WriterMessages :
          LET outcome == add_message(files, id, message_data, now)
          IN  /\ w_call' = [w_call EXCEPT ![t] = <<id, message_data>>]
              /\ IF outcome[1] = files
                 THEN /\ w_pc' = [w_pc EXCEPT ![t] = "done"]
                      /\ w_result' = [w_result EXCEPT ![t] = outcome[2]]
                      /\ UNCHANGED w_local
                 ELSE /\ w_pc' = [w_pc EXCEPT ![t] = "save"]
                      /\ w_local' = [w_local EXCEPT ![t] = outcome[1][id]]
                      /\ w_result' = [w_result EXCEPT ![t] = outcome[2]]
    /\ UNCHANGED <<pipeVars, idVars, compressorThreadVars, repoVars>>

\* lines 194-196: self.save(conversation_id, conversation); return message_data
WriterSaves(t) ==
    /\ w_pc[t] = "save"
    /\ files' = save(files, w_call[t][1], w_local[t])
    /\ w_pc' = [w_pc EXCEPT ![t] = "done"]
    /\ UNCHANGED <<w_call, w_local, w_result>>
    /\ UNCHANGED <<collections, now, last_call, prev_files, result, repo_calls>>
    /\ UNCHANGED <<pipeVars, idVars, compressorThreadVars>>

NextWriters ==
    \/ StoreConversation
    \/ \E t \in Threads : WriterReads(t)
    \/ \E t \in Threads : WriterSaves(t)

SpecWriters == Init /\ [][NextWriters]_vars

(***************************************************************************)
(* SpecGen: generate_short_identifier called again and again on one        *)
(* generator that is never reset                                           *)
(***************************************************************************)
\* calls made on the generator
MaxCalls == 2760

GenerateShortIdentifier ==
    /\ next_short_id < MaxCalls
    /\ issued' = Append(issued, ShortIdentifier(next_short_id))
    /\ next_short_id' = next_short_id + 1
    /\ UNCHANGED <<identifier_map, last_visited>>
    /\ UNCHANGED <<pipeVars, threadVars, repoVars>>

NextGen == GenerateShortIdentifier

SpecGen == Init /\ [][NextGen]_vars

(***************************************************************************)
(* SpecRename: one IdentifierShortener visiting Name nodes                 *)
(***************************************************************************)
\* ids of the Name nodes a tree may hold
NodeIds == {
    <<"i", "f">>, <<"N", "o", "n", "e">>, <<"a", "s">>,
    <<"_", "_", "a", "_", "_">>, <<"_", "_", "a">>, <<"a", "_", "_">>,
    <<"_", "a">>, <<"_">>,
    <<"A">>, <<"A", "_", "B">>,
    <<"a">>, <<"a", "s", "k">>, <<"A", "b">>, <<"A", "1">>, <<"a", "_">>
}

VisitName ==
    /\ \E name \in NodeIds :
          /\ identifier_map' = visit_Name(identifier_map, next_short_id, name)[1]
          /\ next_short_id' = visit_Name(identifier_map, next_short_id, name)[2]
          /\ last_visited' = name
    /\ UNCHANGED issued
    /\ UNCHANGED <<pipeVars, threadVars, repoVars>>

NextRename == VisitName

SpecRename == Init /\ [][NextRename]_vars

(***************************************************************************)
(* Properties                                                              *)
(***************************************************************************)
IsDigit(ch) == \E k \in 1..Len(DigitChars) : DigitChars[k] = ch

\* the text holds a substring of the shape ##<digits>##
HasMarkerShape(text) ==
    \E a \in 1..Len(text), b \in 1..Len(text) :
        /\ b >= a + 3
        /\ b + 1 <= Len(text)
        /\ text[a] = "#" /\ text[a + 1] = "#"
        /\ text[b] = "#" /\ text[b + 1] = "#"
        /\ \A m \in (a + 2)..(b - 1) : IsDigit(text[m])

Expanded == pc \in {"expanded", "expanded_text"}

\* C1: a body B free of ##<digits>##, substituted with the pattern table
\* detected from B itself and then expanded, comes back as B
C1_PartialRoundTrip ==
    (/\ pc = "expanded"
     /\ compressed = detect_text
     /\ ~HasMarkerShape(compressed))
        => expanded = compressed

\* C2: decompress_code returns a text that does not start with '# dict:'
\* as it was given
C2_NoHeaderNoOp ==
    (Expanded /\ ~StartsWith(expand_in, HeaderPrefix)) => expanded = expand_in

\* decompress_code has returned a text that holds a header line further in
C2_Witness ==
    /\ pc = "expanded_text"
    /\ ~StartsWith(expand_in, HeaderPrefix)
    /\ Find(expand_in, HeaderPrefix, 0) > 0
    /\ Find(expand_in, <<NL>>, Find(expand_in, HeaderPrefix, 0)) > 0
    /\ expanded = expand_in

\* C3: no exception leaves compress_code, whatever the source text, the file
\* type and the way the parser fails
C3_NeverThrows == pc # "raised"

DunderLike(name) == StartsWith(name, <<"_", "_">>) /\ EndsWith(name, <<"_", "_">>)

PrivateLike(name) == name # <<>> /\ name[1] = "_"

ConstantLike(name) ==
    name # <<>> /\ \A k \in 1..Len(name) : name[k] \in Upper \cup {"_"}

\* C4: no key of identifier_map is a reserved word, dunder-like, private-like
\* or constant-like
C4_IdentifierSafety ==
    \A k \in 1..Len(identifier_map) :
        LET name == identifier_map[k][1]
        IN  /\ name \notin reserved_words
            /\ ~DunderLike(name)
            /\ ~PrivateLike(name)
            /\ ~ConstantLike(name)

\* names were renamed and the latest node visited was one visit_Name keeps
C4_Witness ==
    /\ Len(identifier_map) >= 3
    /\ \/ last_visited \in reserved_words
       \/ PrivateLike(last_visited)
       \/ ConstantLike(last_visited)

\* C5: the identifiers returned by the first 2756 calls are pairwise distinct
C5_UniqueBelowLimit ==
    LET n == Min(Len(issued), 2756)
    IN  Cardinality({issued[k] : k \in 1..n}) = n

C5_Witness == Len(issued) = 2756 /\ next_short_id = 2756

\* C6: the call of index 2756 returns what the call of index 52 returned, and
\* no earlier call repeats an identifier
C6_PinnedCollision ==
    Len(issued) > 2756 =>
        /\ issued[2756 + 1] = issued[52 + 1]
        /\ \A k \in 1..2756 : \A j \in 1..(k - 1) : issued[j] # issued[k]

C6_Witness == Len(issued) = 2757

Returned == pc \in {"returned", "expanded"}

\* C7: the header of an artifact lists at most 30 entries
C7_BoundedDictionary ==
    Returned =>
        /\ Len(pattern_replacements) <= 30
        /\ StartsWith(artifact, HeaderPrefix \o Dictionary(pattern_replacements) \o <<NL>>)

\* an artifact was returned while more than 30 patterns qualified
C7_Witness ==
    /\ pc = "returned"
    /\ Len(FilterQualifying(common_patterns)) > 30
    /\ Len(pattern_replacements) = 30

\* occurrences of pattern in text, overlapping ones included
Occurrences(text, pattern) ==
    Cardinality({j \in 1..(Len(text) - Len(pattern) + 1) :
                    SubSeq(text, j, j + Len(pattern) - 1) = pattern})

\* C8: every pattern in the header satisfies
\* len(pattern) * (count - 1) > len(pattern) + 10, count being its number of
\* occurrences in the text the detector scanned
C8_SavingsThreshold ==
    Returned =>
        \A k \in 1..Len(pattern_replacements) :
            LET pattern == pattern_replacements[k][1]
                count == Occurrences(detect_text, pattern)
            IN  Len(pattern) * (count - 1) > Len(pattern) + 10

\* an artifact was returned with a pattern in its header while the table
\* also held a pattern that does not pay
C8_Witness ==
    /\ pc = "returned"
    /\ pattern_replacements # <<>>
    /\ \E k \in 1..Len(common_patterns) :
          ~(Len(common_patterns[k][1]) * (common_patterns[k][2] - 1)
                > Len(common_patterns[k][1]) + 10)

ExpectedMarker(i) ==
    <<"#", "#">>
        \o (IF i < 10 THEN <<DigitChars[i + 1]>>
            ELSE <<DigitChars[(i \div 10) + 1], DigitChars[(i % 10) + 1]>>)
        \o <<"#", "#">>

\* C9: the i-th header entry (0-based) carries the marker ##i##
C9_MarkerNumbering ==
    Returned =>
        StartsWith(artifact,
                   HeaderPrefix
                       \o Join([k \in 1..Len(pattern_replacements) |->
                                   ExpectedMarker(k - 1) \o <<"=">>
                                       \o pattern_replacements[k][1]],
                               <<";">>)
                       \o <<NL>>)

\* an artifact was returned whose header needs two-digit markers
C9_Witness == pc = "returned" /\ Len(pattern_replacements) > 10

\* C10: stripping the header removes the leading header line and nothing
\* else; with an empty dictionary decompress_code returns the body
C10_HeaderOnlyRemoved ==
    (Expanded /\ HeaderEnd(expand_in) # -1) =>
        LET body == SubSeq(expand_in, HeaderEnd(expand_in) + 2, Len(expand_in))
        IN  /\ StripHeaders(expand_in, 0) = body
            /\ StartsWith(expand_in, HeaderPrefix \o <<NL>>) => expanded = body

\* offsets (1-based) of the newlines that follow the header prefix
NewlinesAfterPrefix(text) ==
    {k \in (Len(HeaderPrefix) + 1)..Len(text) : text[k] = NL}

\* the header is missing, or has no terminating newline, or holds text but no
\* entry with an '=' in it
Malformed(text) ==
    \/ ~StartsWith(text, HeaderPrefix)
    \/ NewlinesAfterPrefix(text) = {}
    \/ \E end \in NewlinesAfterPrefix(text) :
          /\ \A k \in NewlinesAfterPrefix(text) : end <= k
          /\ end > Len(HeaderPrefix) + 1
          /\ \A k \in (Len(HeaderPrefix) + 1)..(end - 1) : text[k] # "="

\* C11: decompress_code returns a text whose header is missing or cannot be
\* parsed into marker=pattern entries as it was given
C11_MalformedUnchanged ==
    (Expanded /\ Malformed(expand_in)) => expanded = expand_in

\* C12: when compress_with_ast fails it returns the text it was given, and
\* pattern substitution goes on with that text
C12_FailOpenRenaming ==
    (pc \in {"substitute", "returned", "expanded"} /\ rename_failed) =>
        /\ compressed = detect_text
        /\ Returned =>
              artifact = HeaderPrefix \o Dictionary(pattern_replacements) \o <<NL>>
                             \o ApplyReplacements(detect_text, pattern_replacements, 1)

\* an artifact was returned after a failed renaming of a text that renaming
\* would have changed, and patterns were substituted in it
C12_Witness ==
    /\ pc = "returned"
    /\ rename_failed
    /\ pattern_replacements # <<>>
    /\ RenderRenamed(detect_text) # detect_text

\* C14: when the normalized text is shorter than 20 characters the pattern
\* table is empty and the artifact is '# dict:\n' followed by the body
C14_ShortInput ==
    (Returned /\ Len(detect_text) < 20) =>
        /\ common_patterns = <<>>
        /\ artifact = HeaderPrefix \o <<NL>> \o compressed

\* an artifact was returned for a 19-character text that repeats itself
C14_Witness ==
    /\ pc = "returned"
    /\ Len(detect_text) = 19
    /\ \A k \in 2..19 : detect_text[k] = detect_text[1]

\* C13: when one line of at least 20 characters is the only repeated content
\* and pays, the header is exactly ##0##=<that line>
C13_SingleRepeatedLine ==
    \A line \in RepeatedLines :
        (Returned /\ file_type # "py" /\ source_code = RepeatedLineText(line)) =>
            StartsWith(artifact,
                       HeaderPrefix \o <<"#", "#", "0", "#", "#", "=">> \o line \o <<NL>>)

\* n is x / 4 rounded up
IsCeilOfQuarter(n, x) == 4 * n >= x /\ 4 * n < x + 4

\* shown, in hundredths, is within half a hundredth of numer / denom * 100
IsPercentOf(shown, numer, denom) ==
    LET diff == shown * denom - numer * 10000
    IN  2 * diff <= denom /\ 2 * diff >= 0 - denom

\* C17: the report shows compacted_length / original_length * 100, shows 100
\* for both ratios when the original is empty, and estimates the tokens of
\* each side as the length divided by 4, rounded up
C17_ReportArithmetic ==
    report # <<>> =>
        LET o == Len(source_code)
            c == Len(artifact)
        IN  /\ report.original_length = o
            /\ report.compressed_length = c
            /\ IsCeilOfQuarter(report.original_tokens, o)
            /\ IsCeilOfQuarter(report.compressed_tokens, c)
            /\ o = 0 => /\ report.ratio = 10000
                        /\ report.token_ratio = 10000
                        /\ report.original_tokens = 0
            /\ o > 0 => /\ IsPercentOf(report.ratio, c, o)
                        /\ IsPercentOf(report.token_ratio, report.compressed_tokens,
                                       report.original_tokens)

\* a report was made for an empty original
C17_Witness == report # <<>> /\ source_code = <<>> /\ Len(artifact) > 0

\* what compress_code returns for (source_code, file_type) on an instance
\* whose pattern table is empty, the renaming ending the way it did
FreshArtifact ==
    LET normalized == remove_comments_and_whitespace(source_code, file_type)
        body == IF file_type = "py"
                THEN compress_with_ast(normalized, IF rename_failed THEN "fail" ELSE "ok")
                ELSE normalized
    IN  compress_patterns(body, detect_common_patterns(normalized))

\* C15: whatever calls the instance served before, compress_code(x, t)
\* returns the artifact a fresh instance returns for (x, t)
C15_TableNotCarried == pc = "returned" => artifact = FreshArtifact

\* a call returned on an instance that held another, non-empty table when
\* the call was entered
C15_Witness ==
    /\ pc = "returned"
    /\ entry_patterns # <<>>
    /\ common_patterns # <<>>
    /\ entry_patterns # common_patterns

\* C16: a compress_code call on a shared instance, for a file type without
\* renaming, returns the artifact it returns when it runs alone, however its
\* phases interleave with those of another call
C16_PureUnderInterleaving ==
    \A t \in Threads :
        t_pc[t] = "returned" =>
            t_artifact[t] = compress_patterns(t_code[t], detect_common_patterns(t_code[t]))

LastCallWas(method) == last_call # <<>> /\ last_call[1] = method

\* the messages a stored conversation held before the latest call
PrevMessages(id) ==
    IF "messages" \in DOMAIN prev_files[id] THEN prev_files[id].messages ELSE <<>>

\* the latest call returned a message and the conversation's list is the
\* previous list followed by that message
MessageAppended ==
    LET id == last_call[2]
    IN  /\ id \in DOMAIN files
        /\ "messages" \in DOMAIN files[id]
        /\ files[id].messages = Append(PrevMessages(id), result[1])
        /\ Len(files[id].messages) = Len(PrevMessages(id)) + 1

\* C18 as stated: every add_message on a stored conversation that returns a
\* message appends it
C18_AddMessageAppends ==
    (LastCallWas("add_message") /\ Len(result) > 0) => MessageAppended

\* the timestamp add_message works with: the one given, else the time of the call
TimestampOf(message_data) ==
    IF "timestamp" \in DOMAIN message_data THEN message_data.timestamp ELSE last_call[4]

\* a stored message has the content and role of the one given and a
\* timestamp less than 5 seconds from its
HasRecentEqual(id, message_data) ==
    \E k \in 1..Len(PrevMessages(id)) :
        /\ PrevMessages(id)[k].content = message_data.content
        /\ PrevMessages(id)[k].role = message_data.role
        /\ PrevMessages(id)[k].timestamp - TimestampOf(message_data) < 5
        /\ TimestampOf(message_data) - PrevMessages(id)[k].timestamp < 5

\* C18 amended: add_message on a stored conversation that returns a message
\* appends it unless a stored message with the same content and role lies
\* within 5 seconds; then nothing is written
C18_AddMessageAppendsUnlessDuplicate ==
    (LastCallWas("add_message") /\ Len(result) > 0) =>
        IF HasRecentEqual(last_call[2], last_call[3])
        THEN files = prev_files
        ELSE /\ MessageAppended
             /\ result[1].content = last_call[3].content
             /\ result[1].role = last_call[3].role
             /\ result[1].timestamp = TimestampOf(last_call[3])

\* a message was appended after an equal one that is 5 seconds older
C18_Witness ==
    /\ LastCallWas("add_message")
    /\ Len(result) > 0
    /\ Len(PrevMessages(last_call[2])) = 1
    /\ PrevMessages(last_call[2])[1].content = last_call[3].content
    /\ PrevMessages(last_call[2])[1].role = last_call[3].role
    /\ Len(files[last_call[2]].messages) = 2

\* C19: delete answers True exactly when the conversation is stored; then it
\* is gone, and only a save brings the id back; on False nothing changes;
\* the other conversations are as they were
C19_Delete ==
    /\ LastCallWas("delete") =>
          LET id == last_call[2]
          IN  /\ result[1] = (id \in DOMAIN prev_files)
              /\ result[1] => find_by_id(files, id) = <<>>
              /\ ~result[1] => DOMAIN files = DOMAIN prev_files
              /\ \A other \in (DOMAIN files \cup DOMAIN prev_files) \ {id} :
                    /\ other \in DOMAIN files
                    /\ other \in DOMAIN prev_files
                    /\ files[other] = prev_files[other]
    /\ \A id \in DOMAIN files \ DOMAIN prev_files :
          LastCallWas("save") /\ last_call[2] = id

\* a stored conversation was deleted while another one was stored
C19_Witness ==
    /\ LastCallWas("delete")
    /\ result = <<TRUE>>
    /\ DOMAIN files # {}

\* the latest update left the file of the conversation as it was
NothingWritten == result = <<>> /\ DOMAIN files = DOMAIN prev_files
                     /\ \A id \in DOMAIN files : files[id] = prev_files[id]

\* C20 as stated: update on a stored conversation persists every field of
\* updates except 'id'; on an id that is not stored it returns None and
\* creates nothing
C20_Update ==
    LastCallWas("update") =>
        LET id == last_call[2]
            updates == last_call[3]
        IN  IF id \in DOMAIN prev_files
            THEN /\ id \in DOMAIN files
                 /\ \A key \in DOMAIN updates \ {"id"} :
                       key \in DOMAIN files[id] /\ files[id][key] = updates[key]
                 /\ "id" \in DOMAIN prev_files[id] =>
                       "id" \in DOMAIN files[id] /\ files[id].id = prev_files[id].id
                 /\ result = find_by_id(files, id)
            ELSE NothingWritten

\* C20 amended: update on a stored conversation with at least one field
\* persists every field of updates except 'id', which stays as it is, and
\* 'updated_at', which becomes the time of the call; otherwise it returns
\* None and writes nothing
C20_UpdateExceptTimestamp ==
    LastCallWas("update") =>
        LET id == last_call[2]
            updates == last_call[3]
        IN  IF id \in DOMAIN prev_files /\ DOMAIN prev_files[id] # {}
            THEN /\ id \in DOMAIN files
                 /\ \A key \in DOMAIN updates \ {"id", "updated_at"} :
                       key \in DOMAIN files[id] /\ files[id][key] = updates[key]
                 /\ files[id].updated_at = last_call[4]
                 /\ ("id" \in DOMAIN files[id]) = ("id" \in DOMAIN prev_files[id])
                 /\ "id" \in DOMAIN prev_files[id] => files[id].id = prev_files[id].id
                 /\ \A key \in DOMAIN prev_files[id] \ (DOMAIN updates \cup {"updated_at"}) :
                       key \in DOMAIN files[id] /\ files[id][key] = prev_files[id][key]
                 /\ result = find_by_id(files, id)
            ELSE NothingWritten

\* an update that names both 'id' and another field was applied to a
\* stored conversation
C20_Witness ==
    /\ LastCallWas("update")
    /\ Len(result) > 0
    /\ "id" \in DOMAIN last_call[3]
    /\ "id" \in DOMAIN prev_files[last_call[2]]

\* the table was filled from detect_text and nothing has touched either since
Detected == pc \in {"rename", "substitute"}

\* the substring of `length` characters at offset i occurs at another offset too
RepeatsAt(text, i, length) ==
    \E j \in 0..(Len(text) - length) :
        j # i /\ \A k \in 1..length : text[j + k] = text[i + k]

HasAlphaAt(text, i, length) == \E k \in 1..length : IsAlpha(text[i + k])

\* pattern is a key of the table
IsKey(table, text, i, length) ==
    \E k \in 1..Len(table) :
        /\ Len(table[k][1]) = length
        /\ MatchAt(text, table[k][1], i)

\* the table holds exactly the substrings of text of min_pattern_length to
\* longest characters that hold a letter and occur more than once, each once
\* and with the number of offsets at which it occurs
TableIsExact(table, text, longest) ==
    /\ \A k \in 1..Len(table) :
          LET pattern == table[k][1]
              offsets == {j \in 0..(Len(text) - Len(pattern)) : MatchAt(text, pattern, j)}
          IN  /\ Len(pattern) >= min_pattern_length
              /\ Len(pattern) <= longest
              /\ HasAlpha(pattern)
              /\ table[k][2] = Cardinality(offsets)
              /\ table[k][2] > 1
              /\ \A j \in 1..(k - 1) : table[j][1] # pattern
    /\ \A length \in min_pattern_length..Min(longest, Len(text)) :
          \A i \in 0..(Len(text) - length) :
              (HasAlphaAt(text, i, length) /\ RepeatsAt(text, i, length))
                  => IsKey(table, text, i, length)

\* C21 as stated: the table holds exactly the repeated substrings of 20 to
\* 100 characters that hold a letter, each with its number of occurrences
C21_DetectorComplete ==
    Detected => TableIsExact(common_patterns, detect_text, 100)

\* C21 amended: the table holds exactly the repeated substrings of 20 to 99
\* characters that hold a letter, each with its number of occurrences,
\* overlapping ones counted
C21_DetectorCompleteBelowStop ==
    Detected => TableIsExact(common_patterns, detect_text, 99)

\* the detector has scanned a text in which a substring of 100 characters
\* repeats, and holds its substrings of 99 characters
C21_Witness ==
    /\ Detected
    /\ Len(detect_text) > 100
    /\ RepeatsAt(detect_text, 0, 100)
    /\ HasAlphaAt(detect_text, 0, 100)
    /\ \E k \in 1..Len(common_patterns) : Len(common_patterns[k][1]) = 99

\* len(pattern) * count for a pattern of the table
Score(table, pattern) ==
    LET k == CHOOSE k \in 1..Len(table) : table[k][1] = pattern
    IN  Len(pattern) * table[k][2]

\* the patterns the header lists
HeaderPatterns == {pattern_replacements[k][1] : k \in 1..Len(pattern_replacements)}

\* C22: the header entries are in order of non-increasing len(pattern) * count,
\* and no qualifying pattern left out of the header scores more than a
\* pattern in it
C22_Ranking ==
    Returned =>
        /\ \A k \in 1..(Len(pattern_replacements) - 1) :
              Score(common_patterns, pattern_replacements[k][1])
                  >= Score(common_patterns, pattern_replacements[k + 1][1])
        /\ \A j \in 1..Len(common_patterns) :
              LET pattern == common_patterns[j][1]
                  count == common_patterns[j][2]
              IN  (/\ Len(pattern) * (count - 1) > Len(pattern) + 10
                   /\ pattern \notin HeaderPatterns)
                      => \A listed \in HeaderPatterns :
                             Len(pattern) * count <= Score(common_patterns, listed)
        /\ \A k \in 1..Len(pattern_replacements) :
              \E j \in 1..Len(common_patterns) :
                  /\ common_patterns[j][1] = pattern_replacements[k][1]
                  /\ Len(common_patterns[j][1]) * (common_patterns[j][2] - 1)
                         > Len(common_patterns[j][1]) + 10

\* an artifact was returned whose header lists patterns of different scores
\* while a qualifying pattern was left out
C22_Witness ==
    /\ pc = "returned"
    /\ Len(pattern_replacements) = 30
    /\ Score(common_patterns, pattern_replacements[1][1])
           > Score(common_patterns, pattern_replacements[30][1])
    /\ \E j \in 1..Len(common_patterns) :
          /\ Len(common_patterns[j][1]) * (common_patterns[j][2] - 1)
                 > Len(common_patterns[j][1]) + 10
          /\ common_patterns[j][1] \notin HeaderPatterns

\* the body of the artifact: what follows the header line
SubstitutedBody ==
    SubSeq(artifact,
           Len(HeaderPrefix \o Dictionary(pattern_replacements) \o <<NL>>) + 1,
           Len(artifact))

\* C23: when the body handed to compress_patterns holds no ##<digits>##, the
\* substituted body holds no occurrence of a pattern the header lists
C23_CompleteReplacement ==
    (Returned /\ ~HasMarkerShape(compressed)) =>
        \A k \in 1..Len(pattern_replacements) :
            Find(SubstitutedBody, pattern_replacements[k][1], 0) = -1

\* compress_with_ast has just returned the rendering of a renamed tree
Renamed == pc = "substitute" /\ file_type = "py" /\ ~rename_failed

\* the names among refs[1..k] that are in eligible, each counted once
EligibleUpTo(refs, k, eligible) == {refs[j] : j \in 1..k} \cap eligible

\* every reference whose name is in eligible shows the short identifier the
\* map holds for it: the one generated when the name was first met, names
\* taken in source order; every other reference shows its name
ShownAsHeld(before, after, eligible) ==
    /\ Len(after) = Len(before)
    /\ \A k \in 1..Len(before) :
          IF before[k] \in eligible
          THEN LET first == CHOOSE j \in 1..k :
                                /\ before[j] = before[k]
                                /\ \A i \in 1..(j - 1) : before[i] # before[k]
                   id_num == Cardinality(EligibleUpTo(before, first, eligible)) - 1
               IN  after[k] = (IF id_num < 52 THEN <<chars[id_num + 1]>>
                               ELSE <<chars[((id_num \div 52) % 52) + 1],
                                      chars[(id_num % 52) + 1]>>)
          ELSE after[k] = before[k]

RenamedNames ==
    {name \in {NameNodes(detect_text)[k] : k \in 1..Len(NameNodes(detect_text))} :
        /\ name \notin reserved_words
        /\ ~PrivateLike(name)
        /\ ~EndsWith(name, <<"_", "_">>)
        /\ ~ConstantLike(name)}

StoredMessages(id) ==
    IF id \in DOMAIN files /\ "messages" \in DOMAIN files[id]
    THEN files[id].messages ELSE <<>>

\* C26: get_conversation_history returns at most max_messages messages, the
\* most recent ones of the stored conversation in their stored order, and
\* the empty list for an unknown id
C26_HistoryAtMost ==
    LastCallWas("get_conversation_history") =>
        LET stored == StoredMessages(last_call[2])
            returned == result[1]
            skipped == Len(stored) - Len(returned)
        IN  /\ Len(returned) <= last_call[3]
            /\ Len(returned) = Min(last_call[3], Len(stored))
            /\ \A k \in 1..Len(returned) :
                  /\ returned[k].role = stored[skipped + k].role
                  /\ returned[k].content = stored[skipped + k].content
                  /\ returned[k].timestamp = stored[skipped + k].timestamp
            /\ last_call[2] \notin DOMAIN files => returned = <<>>

\* C27: no identifier returned by generate_short_identifier is a reserved
\* word, whatever the index of the call
C27_NoKeywordGenerated ==
    \A k \in 1..Len(issued) : issued[k] \notin reserved_words

\* C28: no short identifier given to a renamed name equals a name the
\* same pass leaves as it is, and names that differed before the renaming
\* differ after it
C28_NoNameCapture ==
    Renamed =>
        LET before == NameNodes(detect_text)
            after == NameNodes(compressed)
            eligible == RenamedNames
            shown == {<<before[k], after[k]>> : k \in 1..Min(Len(before), Len(after))}
        IN  /\ Len(after) = Len(before)
            /\ \A p \in shown, q \in shown :
                  /\ (p[1] \in eligible /\ q[1] \notin eligible) => p[2] # q[1]
                  /\ p[1] # q[1] => p[2] # q[2]

\* C29: when compress_patterns has substituted a pattern, the artifact it
\* returns, header line and substituted body, is shorter than the body it
\* was given
C29_SubstitutionPays ==
    (/\ Returned
     /\ pattern_replacements # <<>>
     /\ SubstitutedBody # compressed)
        => Len(artifact) < Len(compressed)

\* the message is in the list of the stored conversation
IsStored(id, message) ==
    \E k \in 1..Len(StoredMessages(id)) : StoredMessages(id)[k] = message

\* C30: when two add_message calls with different contents on one stored
\* conversation have both returned their message, both messages are in the
\* stored list, however the reads and writes of the two calls interleave
C30_NoLostUpdate ==
    \A t \in Threads, u \in Threads :
        (/\ w_pc[t] = "done" /\ w_pc[u] = "done"
         /\ w_call[t][1] = w_call[u][1]
         /\ w_call[t][2].content # w_call[u][2].content
         /\ w_result[t] # None /\ w_result[u] # None)
            => /\ IsStored(w_call[t][1], w_result[t][1])
               /\ IsStored(w_call[u][1], w_result[u][1])

====
